---------------------------- MODULE Spec2Model ----------------------------
(***************************************************************************)
(* A model of src/src/utils/csvParser.ts: the bank-statement CSV parser    *)
(* parseCSV with its helpers parseCSVLine, findColumnIndex and             *)
(* getWeekStart.                                                           *)
(*                                                                         *)
(* Text is modelled by TLA+ strings; Char(s, i) is the i-th character.     *)
(* Amounts are exact decimals counted in thousandths (mills), so that a    *)
(* sub-cent amount and the final rounding to cents are both visible.       *)
(* A Date is its time value, [day, hr]: the UTC day number since           *)
(* 1970-01-01 and the hour of that day; the host's time zone is a whole    *)
(* number of hours (tz) that the environment chooses.                      *)
(***************************************************************************)
EXTENDS Integers, Sequences, FiniteSets, TLC

VARIABLES
    csvContent,         \* the argument of parseCSV
    tz,                 \* the host's UTC offset in hours (local = UTC + tz)
    now,                \* what new Date() returns during the call
    pc,                 \* "start", "loop", "done", "raised"; "idle" in SpecTok
    lines,              \* parseCSV: lines
    headers,            \* parseCSV: headers
    dateColIndex, amountColIndex, descColIndex, typeColIndex, actualTypeColIndex,
    i,                  \* parseCSV: the loop index (1-based position in lines)
    transactions, monthlyMap, dailyMap, weeklyMap, totalSpending,
    last,               \* the locals of the latest loop iteration
    result,             \* the value parseCSV returns
    tokFields,          \* tokenizer round trip: the fields written
    tokLine,            \* tokenizer round trip: the line the writer produced
    tokResult,          \* tokenizer round trip: what parseCSVLine returned
    tokPc               \* "idle", "input", "done"

parseVars == <<csvContent, tz, now, pc, lines, headers, dateColIndex, amountColIndex,
               descColIndex, typeColIndex, actualTypeColIndex, i, transactions,
               monthlyMap, dailyMap, weeklyMap, totalSpending, last, result>>
tokVars == <<tokFields, tokLine, tokResult, tokPc>>
vars == <<parseVars, tokVars>>

-----------------------------------------------------------------------------
(* Bounds of the model.                                                    *)

\* The most data lines that follow the header line in csvContent.
MaxRows == 2
\* The most fields in a line of the tokenizer round trip.
MaxFields == 2
\* The most characters in a field of the tokenizer round trip.
MaxLen == 2

-----------------------------------------------------------------------------
(* Strings.                                                                *)

\* F applied to v: the value v is computed first and named in F.
Bind(v, F(_)) == CHOOSE r \in {F(x) : x \in {v}} : TRUE

\* s[k - 1] of the source; undefined, here the empty string, outside s.
Char(s, k) == IF k >= 1 /\ k <= Len(s) THEN SubSeq(s, k, k) ELSE ""

\* The characters String.prototype.trim removes (those that occur here).
WhiteSpace == {" ", "\t", "\r", "\n"}

RECURSIVE TrimStart(_)
TrimStart(s) ==
    IF Len(s) > 0 /\ Char(s, 1) \in WhiteSpace
    THEN TrimStart(SubSeq(s, 2, Len(s)))
    ELSE s

RECURSIVE TrimEnd(_)
TrimEnd(s) ==
    IF Len(s) > 0 /\ Char(s, Len(s)) \in WhiteSpace
    THEN TrimEnd(SubSeq(s, 1, Len(s) - 1))
    ELSE s

\* String.prototype.trim
Trim(s) == TrimEnd(TrimStart(s))

UpperCase == <<"A","B","C","D","E","F","G","H","I","J","K","L","M",
               "N","O","P","Q","R","S","T","U","V","W","X","Y","Z">>
LowerCase == <<"a","b","c","d","e","f","g","h","i","j","k","l","m",
               "n","o","p","q","r","s","t","u","v","w","x","y","z">>

UpperCaseSet == {UpperCase[k] : k \in 1..26}

LowerChar(c) ==
    IF c \in UpperCaseSet
    THEN LowerCase[CHOOSE k \in 1..26 : UpperCase[k] = c]
    ELSE c

RECURSIVE ToLowerCase(_)
\* String.prototype.toLowerCase: every character in lower case, the string
\* taken by halves.
ToLowerCase(s) ==
    IF Len(s) <= 1 THEN LowerChar(s)
    ELSE ToLowerCase(SubSeq(s, 1, Len(s) \div 2))
             \o ToLowerCase(SubSeq(s, Len(s) \div 2 + 1, Len(s)))

\* String.prototype.includes
Includes(s, p) ==
    \E k \in 0..(Len(s) - Len(p)) : SubSeq(s, k + 1, k + Len(p)) = p

Digits == <<"0","1","2","3","4","5","6","7","8","9">>
DigitSet == {Digits[k] : k \in 1..10}
IsDigit(c) == c \in DigitSet
DigitVal(c) == (CHOOSE k \in 1..10 : Digits[k] = c) - 1

\* Whether every character of s is a decimal digit.
AllDigits(s) == \A k \in 1..Len(s) : IsDigit(Char(s, k))

RECURSIVE StrToNat(_)
\* The number a string of decimal digits denotes.
StrToNat(s) ==
    IF Len(s) = 0 THEN 0
    ELSE 10 * StrToNat(SubSeq(s, 1, Len(s) - 1)) + DigitVal(Char(s, Len(s)))

RECURSIVE NatToStr(_)
\* String(n) for n >= 0.
NatToStr(n) ==
    IF n < 10 THEN Digits[n + 1]
    ELSE NatToStr(n \div 10) \o Digits[(n % 10) + 1]

\* String(n)
IntToStr(n) == IF n < 0 THEN "-" \o NatToStr(0 - n) ELSE NatToStr(n)

RECURSIVE PadStart(_, _)
\* s.padStart(w, '0')
PadStart(s, w) == IF Len(s) >= w THEN s ELSE PadStart("0" \o s, w)

-----------------------------------------------------------------------------
(* parseCSVLine (lines 73-101).                                            *)

\* Variant of IsEscapedQuote: a doubled quote is not recognised.
IsEscapedQuoteNever(inQuotes, nextChar) == FALSE

\* Line 83: inQuotes && nextChar === '"'
IsEscapedQuote(inQuotes, nextChar) == inQuotes /\ nextChar = "\""

\* One iteration of the loop of lines 78-97, on line[k - 1] of the source.
\* skip is set by the i++ of line 86: the iteration of the next character
\* does not take place. line[i + 1] past the end is undefined, here "".
ScanChar(line, k, st) ==
    IF st.skip THEN [st EXCEPT !.skip = FALSE]
    ELSE IF Char(line, k) = "\""
    THEN IF IsEscapedQuote(st.inQuotes, Char(line, k + 1))
         THEN [st EXCEPT !.current = @ \o "\"", !.skip = TRUE]
         ELSE [st EXCEPT !.inQuotes = ~@]
    ELSE IF Char(line, k) = "," /\ ~st.inQuotes
    THEN [st EXCEPT !.result = Append(@, Trim(st.current)), !.current = ""]
    ELSE [st EXCEPT !.current = @ \o Char(line, k)]

RECURSIVE ScanLine(_, _, _, _)
\* The iterations of the loop for the characters lo to hi, in order: those
\* of the first half, then those of the second half.
ScanLine(line, lo, hi, st) ==
    IF lo > hi THEN st
    ELSE IF lo = hi THEN ScanChar(line, lo, st)
    ELSE Bind(ScanLine(line, lo, (lo + hi) \div 2, st), LAMBDA mid :
              ScanLine(line, (lo + hi) \div 2 + 1, hi, mid))

\* Lines 74-76, the loop, and lines 99-100.
parseCSVLine(line) ==
    Bind(ScanLine(line, 1, Len(line),
                  [result |-> <<>>, current |-> "", inQuotes |-> FALSE, skip |-> FALSE]),
         LAMBDA st : Append(st.result, Trim(st.current)))

-----------------------------------------------------------------------------
(* findColumnIndex (lines 39-49).                                          *)

\* Whether some pattern of the list is a substring of the normalized header
\* (lines 42-43; the patterns are lower case already).
IncludesAny(normalized, patterns) ==
    \E p \in 1..Len(patterns) : Includes(normalized, patterns[p])

\* Line 41: header.toLowerCase().trim()
MatchesAny(header, patterns) == IncludesAny(Trim(ToLowerCase(header)), patterns)

\* Array.prototype.indexOf, 0-based, -1 when absent.
IndexOf(seq, x) ==
    IF \E k \in 1..Len(seq) : seq[k] = x
    THEN (CHOOSE k \in 1..Len(seq) : seq[k] = x /\ \A j \in 1..(k - 1) : seq[j] # x) - 1
    ELSE -1

RECURSIVE FindHeaderFrom(_, _, _)
\* The loop of lines 40-47 from the k-th header on. The headers are the outer
\* loop and the patterns the inner one: the first header that contains any
\* pattern decides, whatever the patterns' order.
FindHeaderFrom(hs, patterns, k) ==
    IF k > Len(hs) THEN -1
    ELSE IF MatchesAny(hs[k], patterns) THEN IndexOf(hs, hs[k])
    ELSE FindHeaderFrom(hs, patterns, k + 1)

findColumnIndex(hs, patterns) == FindHeaderFrom(hs, patterns, 1)

\* Lines 125-130, 132-134, 136-142, 146-153.
DatePatterns == <<"date", "transaction date", "posted", "posted date">>
AmountPatterns == <<"amount">>
DescPatterns == <<"description", "name", "merchant", "payee", "details">>
TypePatterns == <<"type of transaction", "trans type", "transaction type",
                  "type", "debit/credit", "dr/cr">>

RECURSIVE FindTransactionFrom(_, _)
FindTransactionFrom(hs, k) ==
    IF k > Len(hs) THEN -1
    ELSE IF Trim(ToLowerCase(hs[k])) = "transaction" THEN k - 1
    ELSE FindTransactionFrom(hs, k + 1)

\* Line 158: headers.findIndex(h => h.toLowerCase().trim() === 'transaction')
FindTransactionHeader(hs) == FindTransactionFrom(hs, 1)

-----------------------------------------------------------------------------
(* Dates: the ECMAScript Date operations the parser calls.                 *)

\* The day number of the civil date y-m-d (proleptic Gregorian); d may lie
\* outside the month, as MakeDay allows.
DaysFromCivil(y, m, d) ==
    LET yy  == IF m <= 2 THEN y - 1 ELSE y
        era == yy \div 400
        yoe == yy - era * 400
        mp  == IF m > 2 THEN m - 3 ELSE m + 9
        doy == (153 * mp + 2) \div 5 + d - 1
        doe == yoe * 365 + yoe \div 4 - yoe \div 100 + doy
    IN  era * 146097 + doe - 719468

\* The civil date of the day of year doy (counted from 1 March) of the year
\* yoe of the 400-year era.
CivilFromDayOfYear(era, yoe, doy, mp) ==
    [y |-> yoe + era * 400 + (IF mp < 10 THEN 0 ELSE 1),
     m |-> IF mp < 10 THEN mp + 3 ELSE mp - 9,
     d |-> doy - (153 * mp + 2) \div 5 + 1]

CivilFromYearOfEra(era, doe, yoe) ==
    Bind(doe - (365 * yoe + yoe \div 4 - yoe \div 100), LAMBDA doy :
         CivilFromDayOfYear(era, yoe, doy, (5 * doy + 2) \div 153))

CivilFromDayOfEra(era, doe) ==
    CivilFromYearOfEra(era, doe,
        (doe - doe \div 1460 + doe \div 36524 - doe \div 146096) \div 365)

\* The civil date of a day number.
CivilFromDays(z) ==
    CivilFromDayOfEra((z + 719468) \div 146097, (z + 719468) % 146097)

DaysInMonth(y, m) == DaysFromCivil(IF m = 12 THEN y + 1 ELSE y,
                                   IF m = 12 THEN 1 ELSE m + 1, 1)
                     - DaysFromCivil(y, m, 1)

\* new Date(NaN)
InvalidDate == [nan |-> TRUE, day |-> 0, hr |-> 0]

\* TimeClip: a time value is at most 8.64e15 ms (100,000,000 days) from the
\* epoch, or the Date is invalid.
MakeDate(dayNumber, hour) ==
    LET dn == dayNumber + hour \div 24
        h  == hour % 24
    IN  IF dn >= 0 - 100000000 /\ (dn < 100000000 \/ (dn = 100000000 /\ h = 0))
        THEN [nan |-> FALSE, day |-> dn, hr |-> h]
        ELSE InvalidDate

\* getTime() of a is less than getTime() of b (both valid).
TimeLess(a, b) == a.day < b.day \/ (a.day = b.day /\ a.hr < b.hr)

\* The local day number and hour of a valid Date in the zone UTC + zone.
LocalDay(t, zone) == t.day + (t.hr + zone) \div 24
LocalHour(t, zone) == (t.hr + zone) % 24

\* Date.prototype.getDay: 0 is Sunday; 1970-01-01 was a Thursday.
getDay(t, zone) == (LocalDay(t, zone) + 4) % 7
\* Date.prototype.getDate
getDate(t, zone) == CivilFromDays(LocalDay(t, zone)).d
\* Date.prototype.setDate, giving the Date it leaves.
setDate(t, zone, dt) ==
    Bind(CivilFromDays(LocalDay(t, zone)), LAMBDA c :
         MakeDate(DaysFromCivil(c.y, c.m, 1) + dt - 1, LocalHour(t, zone) - zone))

\* Line 66: (day === 0 ? -6 : 1)
WeekShift(day) == IF day = 0 THEN -6 ELSE 1

\* getWeekStart (lines 63-68).
getWeekStart(date, zone) ==
    Bind(getDay(date, zone), LAMBDA day :
         setDate(date, zone, getDate(date, zone) - day + WeekShift(day)))

\* The year of toISOString: 4 digits, or a sign and 6 digits outside 0..9999.
ISOYear(y) ==
    IF y >= 0 /\ y <= 9999 THEN PadStart(NatToStr(y), 4)
    ELSE IF y < 0 THEN "-" \o PadStart(NatToStr(0 - y), 6)
    ELSE "+" \o PadStart(NatToStr(y), 6)

\* date.toISOString().split('T')[0] of a valid Date: the UTC date.
ToISODate(t) ==
    Bind(CivilFromDays(t.day), LAMBDA c :
         ISOYear(c.y) \o "-" \o PadStart(NatToStr(c.m), 2)
                      \o "-" \o PadStart(NatToStr(c.d), 2))

\* Whether y-m-d names a day of the calendar.
IsCivil(y, m, d) == m >= 1 /\ m <= 12 /\ d >= 1 /\ d <= DaysInMonth(y, m)

\* The Date of hour o'clock UTC on y-m-d, invalid when that is no day.
CivilDate(y, m, d, hour) ==
    IF IsCivil(y, m, d) THEN MakeDate(DaysFromCivil(y, m, d), hour) ELSE InvalidDate

\* new Date(dateStr) (line 228) for the forms of dateStr that occur here:
\* YYYY-MM-DD and its expanded-year form (sign and 6 digits), both UTC
\* midnight; MM/DD/YYYY, local midnight; any other text is unparseable.
ParseDate(s, zone) ==
    IF /\ Len(s) = 10 /\ Char(s, 5) = "-" /\ Char(s, 8) = "-"
       /\ AllDigits(SubSeq(s, 1, 4) \o SubSeq(s, 6, 7) \o SubSeq(s, 9, 10))
    THEN CivilDate(StrToNat(SubSeq(s, 1, 4)), StrToNat(SubSeq(s, 6, 7)),
                   StrToNat(SubSeq(s, 9, 10)), 0)
    ELSE IF /\ Len(s) = 13 /\ Char(s, 1) \in {"-", "+"}
            /\ Char(s, 8) = "-" /\ Char(s, 11) = "-"
            /\ AllDigits(SubSeq(s, 2, 7) \o SubSeq(s, 9, 10) \o SubSeq(s, 12, 13))
            /\ ~(Char(s, 1) = "-" /\ SubSeq(s, 2, 7) = "000000")
    THEN CivilDate(IF Char(s, 1) = "-" THEN 0 - StrToNat(SubSeq(s, 2, 7))
                   ELSE StrToNat(SubSeq(s, 2, 7)),
                   StrToNat(SubSeq(s, 9, 10)), StrToNat(SubSeq(s, 12, 13)), 0)
    ELSE IF /\ Len(s) = 10 /\ Char(s, 3) = "/" /\ Char(s, 6) = "/"
            /\ AllDigits(SubSeq(s, 1, 2) \o SubSeq(s, 4, 5) \o SubSeq(s, 7, 10))
    THEN CivilDate(StrToNat(SubSeq(s, 7, 10)), StrToNat(SubSeq(s, 1, 2)),
                   StrToNat(SubSeq(s, 4, 5)), 0 - zone)
    ELSE InvalidDate

MonthNames == <<"January", "February", "March", "April", "May", "June", "July",
                "August", "September", "October", "November", "December">>

\* date.toLocaleString('en-US', { year: 'numeric', month: 'long' }) (line 242):
\* the local month and the year of the era.
MonthKey(t, zone) ==
    Bind(CivilFromDays(LocalDay(t, zone)), LAMBDA c :
         MonthNames[c.m] \o " " \o NatToStr(IF c.y > 0 THEN c.y ELSE 1 - c.y))

\* Whether the label starts with the name of month k and a space.
IsMonthLabel(name, k) ==
    /\ Len(name) > Len(MonthNames[k])
    /\ SubSeq(name, 1, Len(MonthNames[k]) + 1) = MonthNames[k] \o " "

\* new Date(name) of a month label (lines 270-271): local midnight of the
\* first day of that month.
ParseMonthLabel(name, zone) ==
    Bind(CHOOSE k \in 1..12 : IsMonthLabel(name, k), LAMBDA m :
         MakeDate(DaysFromCivil(StrToNat(SubSeq(name, Len(MonthNames[m]) + 2, Len(name))),
                                m, 1),
                  0 - zone))

\* Lines 247-250: `${utcYear}-${utcMonth}-${utcDate}`; the year is not padded.
DayKey(t) ==
    Bind(CivilFromDays(t.day), LAMBDA c :
         IntToStr(c.y) \o "-" \o PadStart(NatToStr(c.m), 2)
                       \o "-" \o PadStart(NatToStr(c.d), 2))

\* The collation rank of the characters of a day key: the hyphen sorts
\* before the digits.
CollationRank(c) == IF c = "-" THEN 0 ELSE DigitVal(c) + 1

\* The first position at which a and b differ, one past the shorter of the
\* two when one starts with the other.
FirstDifference(a, b) ==
    CHOOSE k \in 1..(Len(a) + 1) :
        /\ k > Len(a) \/ k > Len(b) \/ Char(a, k) # Char(b, k)
        /\ \A j \in 1..(k - 1) : j <= Len(b) /\ Char(a, j) = Char(b, j)

\* a.localeCompare(b) < 0 for day keys (line 289).
LocaleLess(a, b) ==
    Bind(FirstDifference(a, b), LAMBDA k :
         IF k > Len(b) THEN FALSE
         ELSE IF k > Len(a) THEN TRUE
         ELSE CollationRank(Char(a, k)) < CollationRank(Char(b, k)))

-----------------------------------------------------------------------------
(* Amounts.                                                                *)

NaN == [nan |-> TRUE, val |-> 0]
Num(v) == [nan |-> FALSE, val |-> v]

RECURSIVE StripAmount(_)
\* amountStr.replace(/[$,]/g, '') (line 206)
StripAmount(s) ==
    IF Len(s) = 0 THEN ""
    ELSE (IF Char(s, 1) \in {"$", ","} THEN "" ELSE Char(s, 1))
         \o StripAmount(SubSeq(s, 2, Len(s)))

RECURSIVE DigitsEnd(_, _)
\* The first position from k on that holds no digit.
DigitsEnd(s, k) ==
    IF k <= Len(s) /\ IsDigit(Char(s, k)) THEN DigitsEnd(s, k + 1) ELSE k

\* The value in mills of the digits before and after the point; NaN when
\* there is no digit.
FloatValue(intStr, fracStr) ==
    IF Len(intStr) = 0 /\ Len(fracStr) = 0 THEN NaN
    ELSE Num(StrToNat(intStr) * 1000 + StrToNat(SubSeq(fracStr \o "000", 1, 3)))

FloatParts(s, start, intEnd) ==
    FloatValue(SubSeq(s, start, intEnd - 1),
               IF Char(s, intEnd) = "."
               THEN SubSeq(s, intEnd + 1, DigitsEnd(s, intEnd + 1) - 1)
               ELSE "")

\* The unsigned number that starts at position start.
FloatFrom(s, start) == FloatParts(s, start, DigitsEnd(s, start))

Negate(x) == IF x.nan THEN NaN ELSE Num(0 - x.val)

\* parseFloat (line 207) in mills, for texts without an exponent and with at
\* most three fraction digits: the longest prefix sign, digits, point,
\* digits; NaN when it holds no digit.
ParseFloat(s) ==
    IF Char(s, 1) = "-" THEN Negate(FloatFrom(s, 2))
    ELSE IF Char(s, 1) = "+" THEN FloatFrom(s, 2)
    ELSE FloatFrom(s, 1)

\* Math.abs
Abs(v) == IF v < 0 THEN 0 - v ELSE v

\* Variant of Round2: the total is cut, not rounded, to cents.
Round2Down(v) == (v \div 10) * 10

\* Math.round(v * 100) / 100 (line 313), v >= 0 in mills: to the nearest
\* cent, a half upwards.
Round2(v) == ((v + 5) \div 10) * 10

-----------------------------------------------------------------------------
(* Sequences and maps.                                                     *)

Max(a, b) == IF a >= b THEN a ELSE b

RECURSIVE SumSpending(_)
\* The sum of the spending fields of a sequence of entries.
SumSpending(seq) ==
    IF Len(seq) = 0 THEN 0 ELSE seq[1].spending + SumSpending(Tail(seq))

RECURSIVE SumAmount(_)
\* The sum of the amount fields of a sequence of transactions.
SumAmount(seq) ==
    IF Len(seq) = 0 THEN 0 ELSE seq[1].amount + SumAmount(Tail(seq))

\* A Map is the sequence of its entries in insertion order, as Map iterates.
MapHas(map, key) == \E k \in 1..Len(map) : map[k].key = key
MapIndex(map, key) == CHOOSE k \in 1..Len(map) : map[k].key = key

\* map.set(key, (map.get(key) || 0) + amount) (lines 243 and 251)
MapAdd(map, key, amount) ==
    IF MapHas(map, key)
    THEN [map EXCEPT ![MapIndex(map, key)].spending = @ + amount]
    ELSE Append(map, [key |-> key, spending |-> amount])

\* Lines 256-260: the entry is created with the first weekStart of its key.
WeekAdd(map, key, weekStart, amount) ==
    IF MapHas(map, key)
    THEN [map EXCEPT ![MapIndex(map, key)].spending = @ + amount]
    ELSE Append(map, [key |-> key, spending |-> amount, startDate |-> weekStart])

\* Array.prototype.sort with a comparator that Less decides: a stable sort,
\* so an entry goes behind the entries before it that Less does not put
\* after it.
SortBy(seq, Less(_, _)) ==
    LET n == Len(seq)
        Before(j, k) == Less(seq[j], seq[k]) \/ (~Less(seq[k], seq[j]) /\ j < k)
        Pos(k) == Cardinality({j \in 1..n : Before(j, k)}) + 1
    IN  [p \in 1..n |-> seq[CHOOSE k \in 1..n : Pos(k) = p]]

-----------------------------------------------------------------------------
(* parseCSV (lines 106-316).                                               *)

\* The position of the first line feed of text at or after position k, and
\* one past the end of text when there is none.
NextLineFeed(text, k) ==
    IF \E j \in k..Len(text) : Char(text, j) = "\n"
    THEN CHOOSE j \in k..Len(text) :
             Char(text, j) = "\n" /\ \A m \in k..(j - 1) : Char(text, m) # "\n"
    ELSE Len(text) + 1

\* The characters of text from position k up to position e, e excluded.
Piece(text, k, e) == IF e > k THEN SubSeq(text, k, e - 1) ELSE ""

RECURSIVE SplitFrom(_, _, _)
\* The pieces of text from position k on that its line feeds separate.
SplitFrom(text, k, res) ==
    Bind(NextLineFeed(text, k), LAMBDA e :
        IF e > Len(text) THEN Append(res, Piece(text, k, e))
        ELSE SplitFrom(text, e + 1, Append(res, Piece(text, k, e))))

\* csvContent.split('\n')
Split(text) == SplitFrom(text, 1, <<>>)

\* Line 107: csvContent.split('\n').filter(line => line.trim())
NonEmptyLines(text) == SelectSeq(Split(text), LAMBDA l : Len(Trim(l)) > 0)

\* Lines 110-117 and 171-178.
EmptyResult ==
    [transactions |-> <<>>, monthlySpending |-> <<>>, dailySpending |-> <<>>,
     weeklySpending |-> <<>>, totalSpending |-> 0, transactionCount |-> 0]

\* fields[index]?.trim() || '' (lines 198-201)
Field(fields, index) ==
    IF index >= 0 /\ index < Len(fields) THEN Trim(fields[index + 1]) ELSE ""

\* Variant of FilteredByType: only a row marked credit is left out.
FilteredByTypeCreditOnly(typeIndex, typeStr) == typeIndex >= 0 /\ typeStr = "credit"

\* Line 218: actualTypeColIndex >= 0 && typeStr !== 'debit'
FilteredByType(typeIndex, typeStr) == typeIndex >= 0 /\ typeStr # "debit"

\* Variant of SpendingAmount: the sign of the amount is kept.
SpendingAmountSigned(amount) == amount

\* Line 223: Math.abs(amount)
SpendingAmount(amount) == Abs(amount)

\* The `continue` an iteration takes (lines 190, 194, 212, 218 and 229),
\* "none" when the row is retained.
SkipOf(line, fields, amount, typeStr, date) ==
    IF Len(line) = 0 THEN "empty"
    ELSE IF Len(fields) <= Max(dateColIndex, amountColIndex) THEN "fields"
    ELSE IF amount.nan THEN "amount"
    ELSE IF FilteredByType(actualTypeColIndex, typeStr) THEN "type"
    ELSE IF date.nan THEN "date"
    ELSE "none"

\* The locals before the first iteration, and of an iteration that skips.
NoRow == [skip |-> "init", line |-> "", desc |-> "", amount |-> 0,
          spendingAmount |-> 0, date |-> InvalidDate, weekStart |-> InvalidDate]

LocalsOf(skip, line, desc, amount, date) ==
    IF skip = "none"
    THEN [skip |-> skip, line |-> line, desc |-> desc, amount |-> amount.val,
          spendingAmount |-> SpendingAmount(amount.val), date |-> date,
          weekStart |-> getWeekStart(date, tz)]
    ELSE [NoRow EXCEPT !.skip = skip, !.line = line]

\* Lines 198-201, 206-207 and 226-228, on the fields of the line.
LocalsOfFields(line, fields) ==
    Bind(ParseFloat(Trim(StripAmount(Field(fields, amountColIndex)))), LAMBDA amount :
    Bind(IF Len(Field(fields, dateColIndex)) > 0
         THEN ParseDate(Field(fields, dateColIndex), tz) ELSE now, LAMBDA date :
         LocalsOf(SkipOf(line, fields, amount,
                         IF actualTypeColIndex >= 0
                         THEN ToLowerCase(Field(fields, actualTypeColIndex)) ELSE "",
                         date),
                  line,
                  IF descColIndex >= 0 THEN Field(fields, descColIndex) ELSE "",
                  amount, date)))

\* The locals of one iteration of the loop (lines 189-232 and 254).
RowLocals(rawLine) ==
    Bind(Trim(rawLine), LAMBDA line : LocalsOfFields(line, parseCSVLine(line)))

\* The accumulators before the loop (lines 182-186).
EmptyAcc ==
    [transactions |-> <<>>, monthlyMap |-> <<>>, dailyMap |-> <<>>,
     weeklyMap |-> <<>>, totalSpending |-> 0, raised |-> FALSE, locals |-> NoRow]

\* Lines 235-251: the transaction is stored and added to its month and day.
Pushed(acc, r) ==
    [acc EXCEPT
        !.transactions = Append(@, [date |-> ToISODate(r.date),
                                    description |-> r.desc,
                                    amount |-> r.spendingAmount]),
        !.monthlyMap = MapAdd(@, MonthKey(r.date, tz), r.spendingAmount),
        !.dailyMap = MapAdd(@, DayKey(r.date), r.spendingAmount),
        !.locals = r]

\* Lines 255-262: the week and the total. weekStart.toISOString() raises
\* RangeError when the week start is no valid Date.
Weighed(acc, r) ==
    IF r.weekStart.nan THEN [acc EXCEPT !.raised = TRUE]
    ELSE [acc EXCEPT
             !.weeklyMap = WeekAdd(@, ToISODate(r.weekStart), r.weekStart,
                                   r.spendingAmount),
             !.totalSpending = @ + r.spendingAmount]

\* One iteration with the locals r.
ApplyRow(acc, r) ==
    IF r.skip # "none" THEN [acc EXCEPT !.locals = r] ELSE Weighed(Pushed(acc, r), r)

\* One iteration of the loop on the accumulators (lines 189-262).
RowStep(acc, rawLine) == ApplyRow(acc, RowLocals(rawLine))

\* Variant of AfterSkip: a skipped row ends the loop (break for continue).
AfterSkipBreak(index, n) == n

\* The loop index after a `continue` (lines 190-230 and the i++ of line 188).
AfterSkip(index, n) == index + 1

\* Lines 266-273.
MonthLess(a, b) == TimeLess(ParseMonthLabel(a.key, tz), ParseMonthLabel(b.key, tz))
\* Line 289.
DayLess(a, b) == LocaleLess(a.key, b.key)
\* Line 305.
WeekLess(a, b) == TimeLess(a.startDate, b.startDate)

SortedMonthly(map) == SortBy(map, MonthLess)
SortedDaily(map) == SortBy(map, DayLess)
SortedWeekly(map) == SortBy(map, WeekLess)

\* Lines 308-315 with the sorted entries. The monthly entries carry their
\* name, which is the key; the daily and weekly entries carry their sort key
\* (sortKey, startDate) in place of the display label made from it.
Packed(acc, monthly, daily, weekly) ==
    [transactions |-> acc.transactions,
     monthlySpending |-> [k \in 1..Len(monthly) |->
         [name |-> monthly[k].key, spending |-> monthly[k].spending]],
     dailySpending |-> [k \in 1..Len(daily) |->
         [sortKey |-> daily[k].key, spending |-> daily[k].spending]],
     weeklySpending |-> [k \in 1..Len(weekly) |->
         [startDate |-> weekly[k].startDate, spending |-> weekly[k].spending]],
     totalSpending |-> Round2(acc.totalSpending),
     transactionCount |-> Len(acc.transactions)]

\* Lines 265-315.
Assemble(acc) ==
    Packed(acc, SortedMonthly(acc.monthlyMap), SortedDaily(acc.dailyMap),
           SortedWeekly(acc.weeklyMap))

-----------------------------------------------------------------------------
(* The inputs.                                                             *)

\* Header lines: without a type column, with one, without an amount column,
\* with a generic and a specific type header in both orders, and with the
\* header `Transaction` of the fallback of line 158.
HeaderLines ==
    {"Date,Description,Amount",
     "Posted Date,Merchant,Amount,Type",
     "Date,Description",
     "Date,Card Type,Amount,Transaction Type",
     "Date,Transaction Type,Amount,Card Type",
     "Date,Details,Amount,Transaction"}

\* Data lines: debit and credit rows, a US date with a negative amount and an
\* upper-case type, a quoted amount with `$` and a thousands comma, a
\* sub-cent amount, a year below 1000, an empty date, a bad date, a bad
\* amount, a short row, a blank line, and the earliest date a Date can hold.
DataLines ==
    {"2024-03-04,Gym,30.00,debit",
     "2024-03-10,Refund,30.00,credit",
     "03/10/2024,Cafe,-4.50,DEBIT",
     "2024-01-05,Rent,\"$1,234.56\",debit",
     "2024-01-05,Tip,0.004,debit",
     "0999-12-31,Old,1.00,debit",
     ",Cash,2.00,debit",
     "abc,Bad,5.00,debit",
     "2024-03-04,Bad,abc,debit",
     "2024-03-04",
     " ",
     "-271821-04-20,Min,1.00,debit"}

RECURSIVE JoinLines(_)
\* The lines joined by line feeds.
JoinLines(ls) ==
    IF Len(ls) = 0 THEN ""
    ELSE IF Len(ls) = 1 THEN ls[1]
    ELSE ls[1] \o "\n" \o JoinLines(Tail(ls))

RowSeqs == UNION {[1..n -> DataLines] : n \in 0..MaxRows}

\* The texts parseCSV is called with: the empty text, and a header line
\* followed by up to MaxRows data lines.
Texts == {""} \cup {JoinLines(<<h>> \o rows) : h \in HeaderLines, rows \in RowSeqs}

\* The host's time zone: west of, at, and east of UTC.
TimeZones == {-5, 0, 8}

\* The time of the call: Wednesday 2024-03-06, 15:00 UTC.
NowValues == {MakeDate(DaysFromCivil(2024, 3, 6), 15)}

TokIdle ==
    /\ tokFields = <<>>
    /\ tokLine = ""
    /\ tokResult = <<>>
    /\ tokPc = "idle"

ParseIdle ==
    /\ tz = 0
    /\ now = InvalidDate
    /\ lines = <<>>
    /\ headers = <<>>
    /\ dateColIndex = -1
    /\ amountColIndex = -1
    /\ descColIndex = -1
    /\ typeColIndex = -1
    /\ actualTypeColIndex = -1
    /\ i = 0
    /\ transactions = <<>>
    /\ monthlyMap = <<>>
    /\ dailyMap = <<>>
    /\ weeklyMap = <<>>
    /\ totalSpending = 0
    /\ last = NoRow
    /\ result = EmptyResult

Init ==
    /\ csvContent \in Texts
    /\ pc = "start"
    /\ ParseIdle
    /\ TokIdle

-----------------------------------------------------------------------------
(* The steps of parseCSV.                                                  *)

\* Lines 107-186: the lines, the header row and the column indices; the
\* empty result when there are fewer than two lines or no date or amount
\* column. The host's time zone and clock are the environment's.
Start ==
    /\ pc = "start"
    /\ \E zone \in TimeZones, clock \in NowValues :
           tz' = zone /\ now' = clock
    /\ \E ls \in {NonEmptyLines(csvContent)} :
         \E hs \in {IF Len(ls) < 2 THEN <<>> ELSE parseCSVLine(ls[1])} :
           \E dIdx \in {findColumnIndex(hs, DatePatterns)},
              aIdx \in {findColumnIndex(hs, AmountPatterns)},
              tIdx \in {findColumnIndex(hs, TypePatterns)} :
             /\ lines' = ls
             /\ headers' = hs
             /\ dateColIndex' = dIdx
             /\ amountColIndex' = aIdx
             /\ descColIndex' = findColumnIndex(hs, DescPatterns)
             /\ typeColIndex' = tIdx
             /\ actualTypeColIndex' = IF tIdx = -1 THEN FindTransactionHeader(hs) ELSE tIdx
             /\ IF Len(ls) < 2 \/ dIdx = -1 \/ aIdx = -1
                THEN pc' = "done" /\ i' = i
                ELSE pc' = "loop" /\ i' = 1
    /\ result' = EmptyResult
    /\ UNCHANGED <<csvContent, transactions, monthlyMap, dailyMap, weeklyMap,
                   totalSpending, last, tokVars>>

Acc == [transactions |-> transactions, monthlyMap |-> monthlyMap,
        dailyMap |-> dailyMap, weeklyMap |-> weeklyMap,
        totalSpending |-> totalSpending, raised |-> FALSE, locals |-> last]

\* Lines 188-263: one iteration of the loop, on lines[i].
ProcessRow ==
    /\ pc = "loop"
    /\ i < Len(lines)
    /\ \E acc \in {RowStep(Acc, lines[i + 1])} :
           /\ last' = acc.locals
           /\ transactions' = acc.transactions
           /\ monthlyMap' = acc.monthlyMap
           /\ dailyMap' = acc.dailyMap
           /\ weeklyMap' = acc.weeklyMap
           /\ totalSpending' = acc.totalSpending
           /\ pc' = IF acc.raised THEN "raised" ELSE "loop"
           /\ i' = IF acc.raised THEN i
                   ELSE IF acc.locals.skip # "none" THEN AfterSkip(i, Len(lines))
                   ELSE i + 1
    /\ UNCHANGED <<csvContent, tz, now, lines, headers, dateColIndex, amountColIndex,
                   descColIndex, typeColIndex, actualTypeColIndex, result, tokVars>>

\* Lines 265-315: the loop is over; the maps are sorted and the result is
\* returned.
Finish ==
    /\ pc = "loop"
    /\ i >= Len(lines)
    /\ result' = Assemble(Acc)
    /\ pc' = "done"
    /\ UNCHANGED <<csvContent, tz, now, lines, headers, dateColIndex, amountColIndex,
                   descColIndex, typeColIndex, actualTypeColIndex, i, transactions,
                   monthlyMap, dailyMap, weeklyMap, totalSpending, last, tokVars>>

Next == Start \/ ProcessRow \/ Finish

Spec == Init /\ [][Next]_vars

-----------------------------------------------------------------------------
(* The tokenizer on the lines of a reference CSV writer.                   *)

TokAlphabet == {"a", ",", "\"", " "}

RECURSIVE Strings(_)
\* The strings over TokAlphabet of at most n characters.
Strings(n) ==
    IF n = 0 THEN {""}
    ELSE Strings(n - 1) \cup {s \o c : s \in Strings(n - 1), c \in TokAlphabet}

RECURSIVE DoubleQuotes(_)
\* The field with each double quote doubled.
DoubleQuotes(s) ==
    IF Len(s) = 0 THEN ""
    ELSE (IF Char(s, 1) = "\"" THEN "\"\"" ELSE Char(s, 1))
         \o DoubleQuotes(SubSeq(s, 2, Len(s)))

RECURSIVE WriteLine(_)
\* The reference writer: every field in double quotes, its quotes doubled,
\* the fields separated by commas.
WriteLine(fields) ==
    IF Len(fields) = 0 THEN ""
    ELSE "\"" \o DoubleQuotes(fields[1]) \o "\""
         \o (IF Len(fields) = 1 THEN "" ELSE "," \o WriteLine(Tail(fields)))

TokInit ==
    /\ tokFields \in UNION {[1..n -> Strings(MaxLen)] : n \in 1..MaxFields}
    /\ tokLine = ""
    /\ tokResult = <<>>
    /\ tokPc = "input"
    /\ csvContent = ""
    /\ pc = "idle"
    /\ ParseIdle

\* The fields are written to a line and parseCSVLine is applied to it.
Tokenize ==
    /\ tokPc = "input"
    /\ tokLine' = WriteLine(tokFields)
    /\ tokResult' = parseCSVLine(WriteLine(tokFields))
    /\ tokPc' = "done"
    /\ UNCHANGED <<tokFields, parseVars>>

TokNext == Tokenize

SpecTok == TokInit /\ [][TokNext]_vars

-----------------------------------------------------------------------------
(* What the claims say of a data line, read off the line itself.           *)

\* The fields of a data line as the claims speak of them: whether there are
\* too few, the date field, the amount, the type in lower case, the
\* description, and whether the date field is non-empty and no date.
ViewOfFields(fields) ==
    [tooShort |-> Len(fields) <= Max(dateColIndex, amountColIndex),
     dateStr |-> Field(fields, dateColIndex),
     amount |-> ParseFloat(Trim(StripAmount(Field(fields, amountColIndex)))),
     type |-> ToLowerCase(Field(fields, actualTypeColIndex)),
     desc |-> IF descColIndex >= 0 THEN Field(fields, descColIndex) ELSE "",
     badDate |-> /\ Len(Field(fields, dateColIndex)) > 0
                 /\ ParseDate(Field(fields, dateColIndex), tz).nan]

RowView(l) == ViewOfFields(parseCSVLine(Trim(l)))
RowAmount(l) == RowView(l).amount
RowType(l) == RowView(l).type
RowDesc(l) == RowView(l).desc

\* The row cannot be read: too few fields, an unparseable amount, or an
\* unparseable non-empty date.
Unreadable(v) == v.tooShort \/ v.amount.nan \/ v.badDate
\* The row is left out for its type: there is a type column and the type is
\* not debit.
NotDebit(v) == actualTypeColIndex >= 0 /\ v.type # "debit"
\* The row is discarded.
Discarded(v) == Unreadable(v) \/ NotDebit(v)
RowDiscarded(l) == Discarded(RowView(l))

\* The data lines of the input, and those of them that are not discarded.
DataRows == Tail(lines)
RetainedRows == SelectSeq(DataRows, LAMBDA l : ~RowDiscarded(l))

\* The views of the data lines.
DataViews == [k \in 1..Len(DataRows) |-> RowView(DataRows[k])]

\* parseCSV went through its loop and returned.
Returned == pc = "done" /\ Len(lines) >= 2 /\ dateColIndex >= 0 /\ amountColIndex >= 0

RECURSIVE SumViewAmounts(_)
\* The sum of the absolute amounts of the rows.
SumViewAmounts(views) ==
    IF Len(views) = 0 THEN 0
    ELSE Abs(views[1].amount.val) + SumViewAmounts(Tail(views))

-----------------------------------------------------------------------------
(* C1 *)

\* C1: in the result of parseCSV the spending of the monthly entries, of the
\* daily entries and of the weekly entries each add up to totalSpending.
C1_BucketsSumToTotal ==
    pc = "done" =>
        /\ SumSpending(result.monthlySpending) = result.totalSpending
        /\ SumSpending(result.dailySpending) = result.totalSpending
        /\ SumSpending(result.weeklySpending) = result.totalSpending

-----------------------------------------------------------------------------
(* C2 *)

\* C2: totalSpending of the result is the sum of the amounts of the returned
\* transactions rounded to cents (a multiple of 10 mills, nearest to the sum,
\* a half upwards), rounded once after the summation; transactionCount is
\* the length of the list.
C2_TotalIsRoundedSum ==
    pc = "done" =>
        /\ result.totalSpending % 10 = 0
        /\ result.totalSpending - SumAmount(result.transactions) \in -4..5
        /\ result.transactionCount = Len(result.transactions)

\* Two sub-cent transactions whose sum rounds to a cent.
C2_Witness ==
    /\ pc = "done"
    /\ result.transactionCount = 2
    /\ SumAmount(result.transactions) = 8
    /\ result.totalSpending = 10

-----------------------------------------------------------------------------
(* C3 *)

\* C3: with a type column, a row whose type is not exactly debit is in none
\* of the transactions, the buckets or the total; without a type column the
\* same row is in all of them. So the returned transactions are the readable
\* rows that are typed debit or have no type column, in order, and the
\* buckets and the total hold the amounts of those rows and nothing else.
C3_TypeFilter ==
    Returned =>
        \A kept \in {SelectSeq(DataViews, LAMBDA v : ~Unreadable(v) /\ ~NotDebit(v))} :
            /\ Len(result.transactions) = Len(kept)
            /\ \A k \in 1..Len(kept) :
                   /\ result.transactions[k].description = kept[k].desc
                   /\ result.transactions[k].amount = Abs(kept[k].amount.val)
            /\ result.totalSpending = Round2(SumViewAmounts(kept))
            /\ SumSpending(result.monthlySpending) = SumViewAmounts(kept)
            /\ SumSpending(result.dailySpending) = SumViewAmounts(kept)
            /\ SumSpending(result.weeklySpending) = SumViewAmounts(kept)

\* Scenario B: a debit row and a credit row under a header with a type
\* column; only the debit row is returned.
C3_Witness ==
    /\ Returned
    /\ actualTypeColIndex >= 0
    /\ Len(DataRows) = 2
    /\ RowType(DataRows[1]) = "debit"
    /\ RowType(DataRows[2]) = "credit"
    /\ result.transactionCount = 1
    /\ result.totalSpending = 30000

-----------------------------------------------------------------------------
(* C4 *)

\* C4: parseCSV never raises; with fewer than two non-empty lines, or with
\* no date column or no amount column, it returns the empty result and
\* processes no data row.
C4_NeverRaises ==
    /\ pc # "raised"
    /\ (pc = "done" /\ (Len(lines) < 2 \/ dateColIndex = -1 \/ amountColIndex = -1))
           => (result = EmptyResult /\ i = 0 /\ last = NoRow)

-----------------------------------------------------------------------------
(* C5 *)

RECURSIVE FoldRows(_, _)
\* The accumulators after the loop has run over the rows.
FoldRows(acc, rows) ==
    IF Len(rows) = 0 THEN acc ELSE FoldRows(RowStep(acc, rows[1]), Tail(rows))

\* C5: a discarded row changes nothing and does not stop the loop: the
\* result is the result for the input without its discarded rows, so every
\* retained row, also one after a discarded row, is in it.
C5_DiscardedRowsLeaveNoTrace ==
    Returned => result = Assemble(FoldRows(EmptyAcc, RetainedRows))

\* A discarded row followed by a retained row, which is returned.
C5_Witness ==
    /\ Returned
    /\ Len(DataRows) = 2
    /\ RowDiscarded(DataRows[1])
    /\ ~RowDiscarded(DataRows[2])
    /\ result.transactionCount = 1

-----------------------------------------------------------------------------
(* C6 *)

\* C6 as stated: the tokenizer gives back every written field exactly.
C6_RoundTripExact == tokPc = "done" => tokResult = tokFields

\* C6 as amended: the tokenizer gives back as many fields as were written,
\* and at each position the written field with the white space at its ends
\* removed, so exactly the written field when it has none there.
C6_RoundTripTrimmed ==
    tokPc = "done" =>
        /\ Len(tokResult) = Len(tokFields)
        /\ \A k \in 1..Len(tokFields) :
               /\ tokResult[k] = Trim(tokFields[k])
               /\ (Char(tokFields[k], 1) # " " /\ Char(tokFields[k], Len(tokFields[k])) # " ")
                      => tokResult[k] = tokFields[k]

\* Two fields, one holding a comma and one a double quote, came back.
C6_Witness ==
    /\ tokPc = "done"
    /\ Len(tokFields) = 2
    /\ Includes(tokFields[1], ",")
    /\ Includes(tokFields[2], "\"")
    /\ tokResult = tokFields

-----------------------------------------------------------------------------
(* C7 *)

\* The day of the week of a day number, 0 for Sunday.
WeekDay(dayNumber) == (dayNumber + 4) % 7

\* C7: the weekly bucket of a retained transaction is keyed by the Monday on
\* or before the transaction's date: the key is a Monday and the date is one
\* of the seven days from it; 2024-03-04 and 2024-03-10 share the bucket
\* 2024-03-04.
C7_WeekKeyIsMonday ==
    /\ (pc \in {"loop", "done"} /\ last.skip = "none") =>
           /\ WeekDay(last.weekStart.day) = 1
           /\ last.date.day - last.weekStart.day \in 0..6
    /\ (/\ Returned
        /\ Len(result.transactions) = 2
        /\ result.transactions[1].date = "2024-03-04"
        /\ result.transactions[2].date = "2024-03-10")
           => (Len(weeklyMap) = 1 /\ weeklyMap[1].key = "2024-03-04")

-----------------------------------------------------------------------------
(* C8 *)

\* The month a monthly entry names, as year * 12 + month.
MonthOfName(name) ==
    LET m == CHOOSE k \in 1..12 : IsMonthLabel(name, k)
    IN  12 * StrToNat(SubSeq(name, Len(MonthNames[m]) + 2, Len(name))) + m

\* The day number a day key names: a year, which may be negative, -MM-DD.
DayOfKey(key) ==
    LET n == Len(key)
        yr == SubSeq(key, 1, n - 6)
        y == IF Char(yr, 1) = "-" THEN 0 - StrToNat(SubSeq(yr, 2, Len(yr)))
             ELSE StrToNat(yr)
    IN  DaysFromCivil(y, StrToNat(SubSeq(key, n - 4, n - 3)),
                      StrToNat(SubSeq(key, n - 1, n)))

\* C8: the monthly, daily and weekly entries are each in strictly ascending
\* order of their month, UTC day and week start, one entry per bucket; the
\* transactions are in the order of the input rows.
C8_BucketsChronological ==
    Returned =>
        /\ \A j, k \in 1..Len(result.monthlySpending) :
               j < k => MonthOfName(result.monthlySpending[j].name)
                            < MonthOfName(result.monthlySpending[k].name)
        /\ \A j, k \in 1..Len(result.dailySpending) :
               j < k => DayOfKey(result.dailySpending[j].sortKey)
                            < DayOfKey(result.dailySpending[k].sortKey)
        /\ \A j, k \in 1..Len(result.weeklySpending) :
               j < k => result.weeklySpending[j].startDate.day
                            < result.weeklySpending[k].startDate.day
        /\ \A kept \in {RetainedRows} :
               /\ Len(result.transactions) = Len(kept)
               /\ \A k \in 1..Len(kept) :
                      result.transactions[k].description = RowDesc(kept[k])

-----------------------------------------------------------------------------
(* C9 *)

\* C9: every returned amount is at least 0, a source amount of -x and of x
\* both giving x, and no bucket sum and no total ever decreases while the
\* rows are processed.
C9_AmountsNonNegative ==
    [][ /\ \A k \in 1..Len(transactions') : transactions'[k].amount >= 0
        /\ Len(transactions') > Len(transactions) =>
               transactions'[Len(transactions')].amount
                   = Abs(RowAmount(lines[i + 1]).val)
        /\ totalSpending' >= totalSpending
        /\ \A k \in 1..Len(monthlyMap) : monthlyMap'[k].spending >= monthlyMap[k].spending
        /\ \A k \in 1..Len(dailyMap) : dailyMap'[k].spending >= dailyMap[k].spending
        /\ \A k \in 1..Len(weeklyMap) : weeklyMap'[k].spending >= weeklyMap[k].spending
      ]_vars

\* A row with a negative amount was retained with the amount's magnitude.
C9_Witness ==
    /\ pc = "loop"
    /\ last.skip = "none"
    /\ last.amount = -4500
    /\ transactions[Len(transactions)].amount = 4500
    /\ totalSpending >= 4500

-----------------------------------------------------------------------------
(* C10 *)

\* The synonyms of the type role that are more specific than `type`.
SpecificTypePatterns == <<"type of transaction", "trans type", "transaction type">>

\* C10: when one header matches a more specific type synonym and another
\* header matches only the generic `type`, the type column is the more
\* specific header, whichever of the two comes first.
C10_SpecificTypeWins ==
    (/\ pc # "start"
     /\ \E h, g \in 1..Len(headers) :
            /\ MatchesAny(headers[h], SpecificTypePatterns)
            /\ MatchesAny(headers[g], <<"type">>)
            /\ ~MatchesAny(headers[g], SpecificTypePatterns))
        => /\ actualTypeColIndex >= 0
           /\ MatchesAny(headers[actualTypeColIndex + 1], SpecificTypePatterns)

=============================================================================
